---------------------------- MODULE Spec2Model ----------------------------
(***************************************************************************)
(* Model of the phi-anonymizer backend: the tolerant response parser       *)
(* (llm_service.parse_llm_response), the document extractor                *)
(* (document_parser) and the pipeline run (llm_service.anonymize_text,     *)
(* api.anonymize.anonymize_upload).                                        *)
(*                                                                         *)
(* Text is a sequence of tokens.  A token is a piece of the concrete       *)
(* string: every whitespace, dash, colon and asterisk character is a token *)
(* of its own, and a keyword the regular expressions look for ("BLOCK 2",  *)
(* "Category:", ...) or a plain word is one token.  The concrete string is *)
(* the concatenation of the tokens.  Words contain no character that any   *)
(* pattern of the parser treats specially, so a match of a pattern always  *)
(* begins and ends on a token boundary.                                    *)
(***************************************************************************)
EXTENDS Integers, Sequences, FiniteSets, TLC

(***************************************************************************)
(* Character classes and keywords of the patterns (re.IGNORECASE is        *)
(* modelled by listing the casings that inputs use).                       *)
(***************************************************************************)
IsSpace(t) == t \in {" ", "\n"}

\* [\s:<em-dash><en-dash>-]; the tokens "<em-dash>" and "<en-dash>" stand for
\* the characters U+2014 and U+2013
InSepClass(t) == IsSpace(t) \/ t \in {":", "-", "<em-dash>", "<en-dash>"}

\* (?:BLOCK\s*2|DE[-\s]*IDENTIFIED\s+DOCUMENT)
DocMarkers == {"BLOCK 2", "block 2", "DE-IDENTIFIED DOCUMENT", "De-identified Document"}

\* (?:BLOCK\s*1|PHI\s+REPLACEMENT\s+LOG)
LogMarkers == {"BLOCK 1", "PHI REPLACEMENT LOG", "PHI Replacement Log"}

CategoryLabels == {"Category:", "category:"}
OriginalLabels == {"Original token:", "original token:"}
ReplacementLabels == {"Replacement:", "replacement:"}
KeyLabels == {"Consistency key:", "consistency key:"}
NoteLabels == {"Note:", "note:"}

SetMax(S) == CHOOSE x \in S : \A y \in S : y <= x
SetMin(S) == CHOOSE x \in S : \A y \in S : x <= y

(***************************************************************************)
(* str.strip(): leading and trailing whitespace removed.                   *)
(***************************************************************************)
RECURSIVE lstrip(_)
lstrip(s) == IF s # <<>> /\ IsSpace(Head(s)) THEN lstrip(Tail(s)) ELSE s

RECURSIVE rstrip(_)
rstrip(s) ==
    IF s # <<>> /\ IsSpace(s[Len(s)]) THEN rstrip(SubSeq(s, 1, Len(s) - 1)) ELSE s

strip(s) == rstrip(lstrip(s))

(***************************************************************************)
(* response.replace('**', '').replace('*', ''): the first pass removes the *)
(* non-overlapping pairs of asterisks from left to right, the second the   *)
(* asterisks that are left.                                                *)
(***************************************************************************)
RECURSIVE replace_pairs(_)
replace_pairs(s) ==
    LET P == {i \in 1..(Len(s) - 1) : s[i] = "*" /\ s[i + 1] = "*"}
    IN  IF P = {} THEN s
        ELSE SubSeq(s, 1, SetMin(P) - 1)
                 \o replace_pairs(SubSeq(s, SetMin(P) + 2, Len(s)))

\* replace('*', '') taking out the first asterisk only
replace_single_first(s) ==
    LET X == {i \in 1..Len(s) : s[i] = "*"}
    IN  IF X = {} THEN s
        ELSE SubSeq(s, 1, SetMin(X) - 1) \o SubSeq(s, SetMin(X) + 1, Len(s))

replace_single(s) == SelectSeq(s, LAMBDA t : t # "*")

clean_response(response) == replace_single(replace_pairs(response))

(***************************************************************************)
(* [\s:<dashes>-]*\n+ after a marker whose last token is at p - 1.  The greedy   *)
(* class run backtracks until a newline follows it, and \n+ then takes the *)
(* newlines up to where the rest of the pattern can match; the rest starts *)
(* right after a newline of the class run.  NlEnds is the set of such      *)
(* starts; backtracking tries them from the last to the first.             *)
(***************************************************************************)
RECURSIVE ClassRun(_, _)
ClassRun(s, p) ==
    IF p <= Len(s) /\ InSepClass(s[p]) THEN 1 + ClassRun(s, p + 1) ELSE 0

NlEnds(s, p) == {q \in (p + 1)..(p + ClassRun(s, p)) : s[q - 1] = "\n"}

(***************************************************************************)
(* doc_pattern: marker, separators, newlines, then ([\s\S]+?) up to the    *)
(* first of "\n\n---", "\n\nNote:" or the end of the string.               *)
(***************************************************************************)
TermAt(s, x) ==
    /\ x + 2 <= Len(s)
    /\ s[x] = "\n" /\ s[x + 1] = "\n"
    /\ \/ s[x + 2] \in NoteLabels
       \/ x + 4 <= Len(s) /\ s[x + 2] = "-" /\ s[x + 3] = "-" /\ s[x + 4] = "-"

\* starts of group(1) that a marker at i allows: at least one character left
DocStarts(s, i) == {q \in NlEnds(s, i + 1) : q <= Len(s)}

DocMarkerAt(s) == {i \in 1..Len(s) : s[i] \in DocMarkers /\ DocStarts(s, i) # {}}

\* re.search(doc_pattern, ...): TRUE iff doc_match is not None
doc_match(s) == DocMarkerAt(s) # {}

\* doc_match.group(1)
doc_group(s) ==
    LET i == SetMin(DocMarkerAt(s))
        q == SetMax(DocStarts(s, i))
        e == SetMin({x \in q..Len(s) : x = Len(s) \/ TermAt(s, x + 1)})
    IN  SubSeq(s, q, e)

(***************************************************************************)
(* re.split(marker [\s:<dashes>-]*\n+, ...): the matches are found from left to  *)
(* right without overlap; parts[-1] is what follows the last one.          *)
(* SplitLast returns the index where parts[-1] starts, 0 when the pattern  *)
(* matches nowhere (len(parts) = 1).                                       *)
(***************************************************************************)
RECURSIVE SplitLast(_, _, _)
SplitLast(s, pos, last) ==
    LET M == {i \in pos..Len(s) : s[i] \in DocMarkers /\ NlEnds(s, i + 1) # {}}
    IN  IF M = {} THEN last
        ELSE LET q == SetMax(NlEnds(s, SetMin(M) + 1)) IN SplitLast(s, q, q)

(***************************************************************************)
(* log_pattern: marker, separators, newlines, then ([\s\S]*?) up to the    *)
(* first place where a document marker follows (lookahead).                *)
(***************************************************************************)
DocAhead(s, q) == {d \in q..Len(s) : s[d] \in DocMarkers}

LogStarts(s, i) == {q \in NlEnds(s, i + 1) : DocAhead(s, q) # {}}

LogMarkerAt(s) == {i \in 1..Len(s) : s[i] \in LogMarkers /\ LogStarts(s, i) # {}}

log_match(s) == LogMarkerAt(s) # {}

\* log_match.group(1)
log_text(s) ==
    LET i == SetMin(LogMarkerAt(s))
        q == SetMax(LogStarts(s, i))
        d == SetMin(DocAhead(s, q))
    IN  SubSeq(s, q, d - 1)

(***************************************************************************)
(* entry_pattern (re.DOTALL | re.IGNORECASE):                              *)
(*   [-<bullet>]?\s*Category:\s*(.+?)\s+Original\s+token:\s*(.+?)          *)
(*   \s+Replacement:\s*(.+?)\s+Consistency\s+key:\s*(.+?)                  *)
(*   (?=\s*[-<bullet>]?\s*Category:|\Z)                                    *)
(*                                                                         *)
(* A field "\s*(.+?)\s+Label" that starts at a (right after the previous   *)
(* label): \s* first takes the whole whitespace run of length w and the    *)
(* lazy group grows one character at a time, so the labels at a + w + 2    *)
(* and later that have whitespace before them are tried from left to       *)
(* right; only when the rest of the pattern fails for all of them does \s* *)
(* give whitespace back, which adds the label at a + w (a field of         *)
(* whitespace only, w >= 2).  With DOTALL the group may run over newlines  *)
(* and over other labels.                                                  *)
(***************************************************************************)
RECURSIVE WsRun(_, _)
WsRun(s, p) == IF p <= Len(s) /\ IsSpace(s[p]) THEN 1 + WsRun(s, p + 1) ELSE 0

FieldCands(s, a, L) ==
    {o \in (a + WsRun(s, a) + 2)..Len(s) : s[o] \in L /\ IsSpace(s[o - 1])}

AltCand(s, a, L) ==
    LET w == WsRun(s, a)
    IN  IF w >= 2 /\ a + w <= Len(s) /\ s[a + w] \in L THEN {a + w} ELSE {}

\* the first candidate in backtracking order, 0 when there is none
Pick(main, alt) ==
    IF main # {} THEN SetMin(main) ELSE IF alt # {} THEN SetMin(alt) ELSE 0

\* the last group needs one character after "Consistency key:"
KeyOk(s, k) == k < Len(s)

KeyPos(s, r) ==
    Pick({k \in FieldCands(s, r + 1, KeyLabels) : KeyOk(s, k)},
         {k \in AltCand(s, r + 1, KeyLabels) : KeyOk(s, k)})

ReplPos(s, o) ==
    Pick({r \in FieldCands(s, o + 1, ReplacementLabels) : KeyPos(s, r) # 0},
         {r \in AltCand(s, o + 1, ReplacementLabels) : KeyPos(s, r) # 0})

OrigPos(s, c) ==
    Pick({o \in FieldCands(s, c + 1, OriginalLabels) : ReplPos(s, o) # 0},
         {o \in AltCand(s, c + 1, OriginalLabels) : ReplPos(s, o) # 0})

\* (?=\s*[-<bullet>]?\s*Category:) at x
LookCat(s, x) ==
    LET x1 == x + WsRun(s, x)
        x2 == IF x1 <= Len(s) /\ s[x1] \in {"-", "<bullet>"} THEN x1 + 1 ELSE x1
        x3 == x2 + WsRun(s, x2)
    IN  x3 <= Len(s) /\ s[x3] \in CategoryLabels

\* the last token of the match whose "Consistency key:" is at k
EntryEnd(s, k) ==
    LET a == k + 1 + WsRun(s, k + 1)
    IN  IF a > Len(s) THEN Len(s)
        ELSE SetMin({e \in a..Len(s) : e = Len(s) \/ LookCat(s, e + 1)})

\* the entry without the .strip() of the groups
PHIReplacement_unstripped(s, c) ==
    LET o == OrigPos(s, c)
        r == ReplPos(s, o)
        k == KeyPos(s, r)
    IN  [category        |-> SubSeq(s, c + 1, o - 1),
         original_token  |-> SubSeq(s, o + 1, r - 1),
         replacement     |-> SubSeq(s, r + 1, k - 1),
         consistency_key |-> SubSeq(s, k + 1, EntryEnd(s, k))]

\* PHIReplacement(category=match.group(1).strip(), ...)
PHIReplacement(s, c) ==
    LET o == OrigPos(s, c)
        r == ReplPos(s, o)
        k == KeyPos(s, r)
    IN  [category        |-> strip(SubSeq(s, c + 1, o - 1)),
         original_token  |-> strip(SubSeq(s, o + 1, r - 1)),
         replacement     |-> strip(SubSeq(s, r + 1, k - 1)),
         consistency_key |-> strip(SubSeq(s, k + 1, EntryEnd(s, k)))]

\* for match in re.finditer(entry_pattern, log_text, ...)
RECURSIVE finditer_entries(_, _)
finditer_entries(s, pos) ==
    LET C == {c \in pos..Len(s) : s[c] \in CategoryLabels /\ OrigPos(s, c) # 0}
    IN  IF C = {} THEN <<>>
        ELSE LET c == SetMin(C)
                 k == KeyPos(s, ReplPos(s, OrigPos(s, c)))
             IN  <<PHIReplacement(s, c)>> \o finditer_entries(s, EntryEnd(s, k) + 1)

\* the parser with the cleaned text, not the raw response, as last fallback
parse_llm_response_clean_fallback(response) ==
    LET clean == clean_response(response)
        last  == SplitLast(clean, 1, 0)
    IN  [anonymized_text |->
            IF doc_match(clean) THEN strip(doc_group(clean))
            ELSE IF last # 0 THEN strip(SubSeq(clean, last, Len(clean)))
            ELSE clean,
         replacement_log |->
            IF log_match(clean) THEN finditer_entries(log_text(clean), 1)
            ELSE <<>>]

(***************************************************************************)
(* parse_llm_response(response) -> (replacement_log, anonymized_text)      *)
(***************************************************************************)
parse_llm_response(response) ==
    LET clean == clean_response(response)
        last  == SplitLast(clean, 1, 0)
    IN  [anonymized_text |->
            IF doc_match(clean) THEN strip(doc_group(clean))
            ELSE IF last # 0 THEN strip(SubSeq(clean, last, Len(clean)))
            ELSE response,
         replacement_log |->
            IF log_match(clean) THEN finditer_entries(log_text(clean), 1)
            ELSE <<>>]

(***************************************************************************)
(* document_parser.  The text of a paragraph, a table cell or a PDF page   *)
(* is kept as three lengths: lead whitespace characters, then core         *)
(* characters from the first to the last non-whitespace character (0 for a *)
(* text with no such character), then trail whitespace characters.  A      *)
(* text of whitespace only has all its characters in lead.                 *)
(***************************************************************************)
Txt(l, c, t) == [lead |-> l, core |-> c, trail |-> t]

\* len(text)
TLen(t) == t.lead + t.core + t.trail

\* text.strip()
TStrip(t) == Txt(0, t.core, 0)

\* bool(text.strip())
HasText(t) == t.core > 0

\* a + b
TCat(a, b) ==
    IF ~HasText(a) /\ ~HasText(b) THEN Txt(TLen(a) + TLen(b), 0, 0)
    ELSE IF ~HasText(a) THEN Txt(TLen(a) + b.lead, b.core, b.trail)
    ELSE IF ~HasText(b) THEN Txt(a.lead, a.core, a.trail + TLen(b))
    ELSE Txt(a.lead, a.core + a.trail + b.lead + b.core, b.trail)

\* sep.join(parts)
RECURSIVE TJoin(_, _)
TJoin(sep, parts) ==
    IF parts = <<>> THEN Txt(0, 0, 0)
    ELSE IF Len(parts) = 1 THEN parts[1]
    ELSE TCat(TCat(parts[1], sep), TJoin(sep, Tail(parts)))

\* the extension compared as given, without lower()
lower_ext_as_given(e) == e

\* file_extension.lower() on the extensions the model uses
lower_ext(e) ==
    CASE e \in {".docx", ".DOCX", ".Docx"} -> ".docx"
      [] e \in {".pdf", ".PDF", ".Pdf"} -> ".pdf"
      [] OTHER -> e

(***************************************************************************)
(* parse_word: the non-blank paragraphs, then the rows of every table as   *)
(* " | ".join(cell.text.strip()), joined by "\n".  A part of the result is *)
(* [kind, page, text].                                                     *)
(***************************************************************************)
Part(k, n, t) == [kind |-> k, page |-> n, text |-> t]

RECURSIVE ParaParts(_)
ParaParts(paragraphs) ==
    IF paragraphs = <<>> THEN <<>>
    ELSE (IF HasText(Head(paragraphs)) THEN <<Part("para", 0, Head(paragraphs))>> ELSE <<>>)
         \o ParaParts(Tail(paragraphs))

RECURSIVE StripAll(_)
StripAll(cells) ==
    IF cells = <<>> THEN <<>> ELSE <<TStrip(Head(cells))>> \o StripAll(Tail(cells))

row_text(cells) == TJoin(Txt(1, 1, 1), StripAll(cells))

RECURSIVE RowParts(_)
RowParts(rows) ==
    IF rows = <<>> THEN <<>>
    ELSE (IF HasText(row_text(Head(rows))) THEN <<Part("row", 0, row_text(Head(rows)))>> ELSE <<>>)
         \o RowParts(Tail(rows))

RECURSIVE TableParts(_)
TableParts(tables) ==
    IF tables = <<>> THEN <<>> ELSE RowParts(Head(tables)) \o TableParts(Tail(tables))

parse_word(doc) ==
    [parts |-> ParaParts(doc.paragraphs) \o TableParts(doc.tables), sep |-> Txt(1, 0, 0)]

(***************************************************************************)
(* detect_needs_ocr: the average of len(page.get_text().strip()) over the  *)
(* first min(3, len(doc)) pages is below 100 (0 pages: average 0).         *)
(***************************************************************************)
OcrPagesToCheck == 3
OcrThreshold == 100

Min2(a, b) == IF a < b THEN a ELSE b

RECURSIVE total_text_length(_, _)
total_text_length(pages, n) ==
    IF n = 0 THEN 0
    ELSE total_text_length(pages, n - 1) + TLen(TStrip(pages[n].native))

\* the heuristic with "<=" for "<"
detect_needs_ocr_inclusive(pages) ==
    LET pages_to_check == Min2(OcrPagesToCheck, Len(pages))
    IN  IF pages_to_check > 0
        THEN total_text_length(pages, pages_to_check) <= OcrThreshold * pages_to_check
        ELSE 0 <= OcrThreshold

\* total / pages_to_check < 100 is compared as total < 100 * pages_to_check
detect_needs_ocr(pages) ==
    LET pages_to_check == Min2(OcrPagesToCheck, Len(pages))
    IN  IF pages_to_check > 0
        THEN total_text_length(pages, pages_to_check) < OcrThreshold * pages_to_check
        ELSE 0 < OcrThreshold

\* the label "--- Page n ---" and the stripped text of every page that has
\* text; get is page.get_text() or the OCR of the page image
\* the page loop numbering the blocks it appends instead of the pages
RECURSIVE PageParts_renumbered(_, _, _)
PageParts_renumbered(pages, n, useOcr) ==
    IF n > Len(pages) THEN <<>>
    ELSE LET text == IF useOcr THEN pages[n].ocr ELSE pages[n].native
             before == Cardinality({j \in 1..(n - 1) :
                          HasText(IF useOcr THEN pages[j].ocr ELSE pages[j].native)})
         IN  (IF HasText(text)
              THEN <<Part("label", before + 1, Txt(0, 14, 0)),
                     Part("text", before + 1, TStrip(text))>>
              ELSE <<>>)
             \o PageParts_renumbered(pages, n + 1, useOcr)

RECURSIVE PageParts(_, _, _)
PageParts(pages, n, useOcr) ==
    IF n > Len(pages) THEN <<>>
    ELSE LET text == IF useOcr THEN pages[n].ocr ELSE pages[n].native
         IN  (IF HasText(text)
              THEN <<Part("label", n, Txt(0, 14, 0)), Part("text", n, TStrip(text))>>
              ELSE <<>>)
             \o PageParts(pages, n + 1, useOcr)

parse_pdf_text(pages) == [parts |-> PageParts(pages, 1, FALSE), sep |-> Txt(2, 0, 0)]

parse_pdf_ocr(pages) == [parts |-> PageParts(pages, 1, TRUE), sep |-> Txt(2, 0, 0)]

parse_pdf(pages, force_ocr) ==
    LET needs_ocr == force_ocr \/ detect_needs_ocr(pages)
    IN  IF needs_ocr THEN [text |-> parse_pdf_ocr(pages), used_ocr |-> TRUE]
        ELSE [text |-> parse_pdf_text(pages), used_ocr |-> FALSE]

NoText == [parts |-> <<>>, sep |-> Txt(0, 0, 0)]

parse_document(f, file_extension) ==
    LET e == lower_ext(file_extension)
    IN  IF e = ".docx"
        THEN [ok |-> TRUE, text |-> parse_word(f), used_ocr |-> FALSE]
        ELSE IF e = ".pdf"
        THEN [ok |-> TRUE] @@ parse_pdf(f.pages, FALSE)
        ELSE [ok |-> FALSE, text |-> NoText, used_ocr |-> FALSE]

RECURSIVE PartTexts(_)
PartTexts(parts) ==
    IF parts = <<>> THEN <<>> ELSE <<Head(parts).text>> \o PartTexts(Tail(parts))

\* the extracted string as lengths; extracted_text.strip() is empty iff
\* ~HasText(TextOf(x))
TextOf(x) == TJoin(x.sep, PartTexts(x.parts))

(***************************************************************************)
(* The responses the parser is run on.  A response is put together from    *)
(* chunks in the layout the prompt asks for (PHI_ANONYMIZATION_PROMPT): an *)
(* optional preamble, a BLOCK 1 marker line, log items, a BLOCK 2 marker   *)
(* line, the document body and a trailing separator or note.  Every part   *)
(* is optional and malformed variants are among the chunks.                *)
(***************************************************************************)
MaxChunks == 5

Entry(c, o, r, k) ==
    [category |-> c, original_token |-> o, replacement |-> r, consistency_key |-> k]

\* log items: text is what the response holds, entry the field values it was
\* written from, wf whether all four fields are there
Items ==
    { [text |-> <<"Category:", " ", "Name", " ", "Original token:", " ", "Patient name",
                  " ", "Replacement:", " ", "Jordan Lee", " ", "Consistency key:", " ",
                  "[PATIENT_NAME]", "\n">>,
       wf |-> TRUE,
       entry |-> Entry(<<"Name">>, <<"Patient name">>, <<"Jordan Lee">>, <<"[PATIENT_NAME]">>)],
      [text |-> <<"-", " ", "*", "*", "Category:", "*", "*", " ", "MRN", "\n",
                  " ", " ", "Original token:", " ", "Record number", "\n",
                  " ", " ", "Replacement:", " ", "48213", "\n",
                  " ", " ", "Consistency key:", " ", "[MRN]", "\n", "\n">>,
       wf |-> TRUE,
       entry |-> Entry(<<"MRN">>, <<"Record number">>, <<"48213">>, <<"[MRN]">>)],
      [text |-> <<"Category:", " ", "SSN", " ", "Original token:", " ", "Social security number",
                  " ", "Replacement:", " ", "*", "*", "*", "-", "*", "*", "-", "6789",
                  " ", "Consistency key:", " ", "[SSN]", "\n">>,
       wf |-> TRUE,
       entry |-> Entry(<<"SSN">>, <<"Social security number">>,
                       <<"*", "*", "*", "-", "*", "*", "-", "6789">>, <<"[SSN]">>)],
      [text |-> <<"Category:", " ", "DOB", " ", "Replacement:", " ", "01/02/1980", " ",
                  "Consistency key:", " ", "[DOB]", "\n">>,
       wf |-> FALSE,
       entry |-> Entry(<<"DOB">>, <<>>, <<"01/02/1980">>, <<"[DOB]">>)],
      [text |-> <<"Category:", " ", "Phone", " ", "Original token:", " ", "Phone number", " ",
                  "Replacement:", " ", "5550100", "\n">>,
       wf |-> FALSE,
       entry |-> Entry(<<"Phone">>, <<"Phone number">>, <<"5550100">>, <<>>)] }

PreChunks ==
    { <<"Here is the de-identified output.", "\n", "\n">>,
      <<"*", "*", "Summary", "*", "*", " ">>,
      <<"Category:", " ", "Name", " ", "Original token:", " ", "Patient name",
        " ", "Replacement:", " ", "Jordan Lee", " ", "Consistency key:", " ",
        "[PATIENT_NAME]", "\n">> }

\* marker lines; ok: the marker is followed by a line break
LogMarkerLines ==
    { [text |-> <<"BLOCK 1", "\n">>, ok |-> TRUE],
      [text |-> <<"BLOCK 1", " ", "<em-dash>", " ", "PHI REPLACEMENT LOG", "\n", "\n">>, ok |-> TRUE] }

DocMarkerLines ==
    { [text |-> <<"BLOCK 2", "\n">>, ok |-> TRUE],
      [text |-> <<"*", "*", "BLOCK 2", " ", "<em-dash>", " ", "DE-IDENTIFIED DOCUMENT", "*", "*",
                  "\n", "\n">>, ok |-> TRUE],
      [text |-> <<"BLOCK 2", ":", " ">>, ok |-> FALSE] }

\* the body; the page blocks are what parse_pdf_text and parse_pdf_ocr emit
BodyChunks ==
    { <<"Patient [PATIENT_NAME] was seen today.">>,
      <<"\n", " ", " ", "*", " ", "Allergies: none">>,
      <<"-", "-", "-", " ", "Page 1", " ", "-", "-", "-", "\n", "\n", "Admission note">>,
      <<"\n", "\n", "-", "-", "-", " ", "Page 2", " ", "-", "-", "-", "\n", "\n", "Discharge note">>,
      <<"\n">> }

Trailers ==
    { <<"\n", "\n", "-", "-", "-", "\n", "End of output.">>,
      <<"\n", "\n", "Note:", " ", "All identifiers were replaced.">> }

VARIABLES
    response,         \* the raw response handed to parse_llm_response
    phase,            \* where the layout of the response has got to
    nchunks,          \* number of chunks in the response
    srcItems,         \* the log items the response was written from
    srcBody,          \* the document body the response was written from
    srcTrailer,       \* the trailing separator or note, <<>> if none
    markers,          \* [log, doc]: "none", "ok" or "bad" marker line
    pstate,           \* "building" or "parsed"
    replacement_log,  \* result of parse_llm_response
    anonymized_text   \* result of parse_llm_response

VARIABLES
    file,             \* the document: [kind, paragraphs, tables, pages]
    xstate,           \* "building", "pdf_done" (parse_pdf returned), "done"
                      \* (parse_document returned) or "unsupported" (it raised)
    file_extension,   \* the extension parse_document was called with
    force_ocr,        \* the flag parse_pdf was called with
    extracted_text,   \* the text returned: [parts, sep]
    used_ocr          \* the flag returned

extractVars == <<file, xstate, file_extension, force_ocr, extracted_text, used_ocr>>

VARIABLES
    endpoint,         \* "text" (POST /anonymize/text) or "upload" (POST /anonymize/upload)
    provider_name,    \* the provider the request names
    settings,         \* [ANTHROPIC_API_KEY, OPENAI_API_KEY]; "" is not configured
    parameters,       \* the parameters of the request: [kind, value], kind "absent",
                      \* "valid" or "invalid" (a form field that does not parse)
    params,           \* the LLMParameters handed to anonymize_text, NoParams for None
    request,          \* the arguments of the outbound provider call
    upload,           \* the uploaded file: [suffix, oversize, readable]
    text,             \* the text handed to llm_service.anonymize_text
    pc,               \* the step the request is at
    temp_file,        \* id of the temp file the request saved, 0 for None
    temp_files,       \* ids in file_handler._temp_files
    disk,             \* ids of the temp files on disk
    provider,         \* the provider get_provider returned, "none" before
    calls,            \* outbound provider calls issued
    reply,            \* what the provider endpoint answered
    result,           \* the AnonymizationResult returned, ok = FALSE before
    error             \* the HTTPException raised: [status, detail, at]

runVars == <<endpoint, provider_name, settings, parameters, params, request, upload, text,
             pc, temp_file, temp_files, disk, provider, calls, reply, result, error>>

VARIABLES
    runs,             \* the upload requests in flight: per request its input, the
                      \* position of its coroutine and its local variables
    running,          \* the request whose coroutine holds the event loop, 0 when
                      \* every task is suspended
    now,              \* time.time(), in seconds
    created_at,       \* TempFile.created_at of the entries of _temp_files
    stored,           \* the document in each file of the temp directory
    issued,           \* the ids uuid4 has returned
    unlinks,          \* how often os.unlink was called on each file
    swept             \* the entries cleanup_old_files selected, with their age

concVars == <<runs, running, now, created_at, stored, issued, unlinks, swept>>

(***************************************************************************)
(* LLMParameters and the arguments of the provider call.  An Optional      *)
(* field is [some, v].  temperature and top_p are counted in tenths (0.3   *)
(* is 3, 1.0 is 10).                                                       *)
(***************************************************************************)
None == [some |-> FALSE, v |-> 0]

Some(x) == [some |-> TRUE, v |-> x]

NoName == [some |-> FALSE, v |-> ""]

LLMParameters(t, m, p, c, n) ==
    [given |-> TRUE, temperature |-> t, max_tokens |-> m, top_p |-> p,
     context_length |-> c, model_name |-> n]

\* params is None
NoParams ==
    [given |-> FALSE, temperature |-> None, max_tokens |-> None, top_p |-> None,
     context_length |-> None, model_name |-> NoName]

DEFAULT_TEMPERATURE == 3
DEFAULT_MAX_TOKENS == 8000
DEFAULT_TOP_P == 10
DEFAULT_CONTEXT_LENGTH == 4096

\* the rule of override_if_not_none with the test "x" for "x is not None"
override_if_not_none_by_truth(ps, o, d) == IF ps.given /\ o.some /\ o.v # 0 THEN o.v ELSE d

\* params.x if params and params.x is not None else default
override_if_not_none(ps, o, d) == IF ps.given /\ o.some THEN o.v ELSE d

\* params.x if params and params.x else default
override_if_truthy(ps, o, d) == IF ps.given /\ o.some /\ o.v # 0 THEN o.v ELSE d

\* params.model_name if params and params.model_name else self.model
model_or_default(ps, d) ==
    IF ps.given /\ ps.model_name.some /\ ps.model_name.v # "" THEN ps.model_name.v ELSE d

Request(model, max_tokens, temperature, top_p, num_ctx) ==
    [model |-> model, max_tokens |-> max_tokens, temperature |-> temperature,
     top_p |-> top_p, num_ctx |-> num_ctx]

NoRequest == Request("", None, 0, 0, None)

\* AnthropicProvider.anonymize: the arguments of client.messages.create
anthropic_request(ps) ==
    Request(model_or_default(ps, "claude-3-5-sonnet-20241022"),
            Some(override_if_truthy(ps, ps.max_tokens, DEFAULT_MAX_TOKENS)),
            override_if_not_none(ps, ps.temperature, DEFAULT_TEMPERATURE),
            override_if_not_none(ps, ps.top_p, DEFAULT_TOP_P),
            None)

\* OpenAIProvider.anonymize: the arguments of client.chat.completions.create
openai_request(ps) ==
    Request(model_or_default(ps, "gpt-4-turbo-preview"),
            Some(override_if_truthy(ps, ps.max_tokens, DEFAULT_MAX_TOKENS)),
            override_if_not_none(ps, ps.temperature, DEFAULT_TEMPERATURE),
            override_if_not_none(ps, ps.top_p, DEFAULT_TOP_P),
            None)

\* OllamaProvider.anonymize: model and options of the POST to /api/generate
ollama_request(ps) ==
    Request(model_or_default(ps, "llama2"),
            None,
            override_if_not_none(ps, ps.temperature, DEFAULT_TEMPERATURE),
            override_if_not_none(ps, ps.top_p, DEFAULT_TOP_P),
            IF ps.given /\ ps.context_length.some /\ ps.context_length.v # 0
            THEN Some(ps.context_length.v)
            ELSE IF DEFAULT_CONTEXT_LENGTH # 0 THEN Some(DEFAULT_CONTEXT_LENGTH)
            ELSE None)

provider_request(p, ps) ==
    IF p = "anthropic" THEN anthropic_request(ps)
    ELSE IF p = "openai" THEN openai_request(ps)
    ELSE ollama_request(ps)

NoParameters == [kind |-> "absent", value |-> NoParams]

(***************************************************************************)
(* llm_service and the endpoints of api/anonymize.  An exception is        *)
(* [type, msg]; msg and an error's detail are the pieces of the message.   *)
(***************************************************************************)
NoExc == [type |-> "none", msg |-> <<>>]

Raise(type, msg) == [type |-> type, msg |-> msg]

\* provider_name.lower() on the names the model uses
lower(name) ==
    CASE name \in {"anthropic", "Anthropic", "ANTHROPIC"} -> "anthropic"
      [] name \in {"openai", "OpenAI"} -> "openai"
      [] name \in {"ollama", "Ollama"} -> "ollama"
      [] name \in {"local", "LOCAL"} -> "local"
      [] name \in {"gemini", "Gemini"} -> "gemini"
      [] OTHER -> name

\* get_provider comparing the name as given, without lower()
get_provider_case_sensitive(name, s) ==
    IF name = "anthropic"
    THEN IF s.ANTHROPIC_API_KEY = ""
         THEN [raised |-> Raise("ValueError", <<"Anthropic API key not configured">>),
               provider |-> "none"]
         ELSE [raised |-> NoExc, provider |-> "anthropic"]
    ELSE IF name = "openai"
    THEN IF s.OPENAI_API_KEY = ""
         THEN [raised |-> Raise("ValueError", <<"OpenAI API key not configured">>),
               provider |-> "none"]
         ELSE [raised |-> NoExc, provider |-> "openai"]
    ELSE IF name \in {"ollama", "local"}
    THEN [raised |-> NoExc, provider |-> "ollama"]
    ELSE [raised |-> Raise("ValueError", <<"Invalid provider: ", lower(name)>>),
          provider |-> "none"]

\* get_provider without the check of the API key
get_provider_unchecked(name, s) ==
    LET n == lower(name)
    IN  IF n = "anthropic" THEN [raised |-> NoExc, provider |-> "anthropic"]
        ELSE IF n = "openai" THEN [raised |-> NoExc, provider |-> "openai"]
        ELSE IF n \in {"ollama", "local"} THEN [raised |-> NoExc, provider |-> "ollama"]
        ELSE [raised |-> Raise("ValueError", <<"Invalid provider: ", n>>), provider |-> "none"]

get_provider(name, s) ==
    LET n == lower(name)
    IN  IF n = "anthropic"
        THEN IF s.ANTHROPIC_API_KEY = ""
             THEN [raised |-> Raise("ValueError", <<"Anthropic API key not configured">>),
                   provider |-> "none"]
             ELSE [raised |-> NoExc, provider |-> "anthropic"]
        ELSE IF n = "openai"
        THEN IF s.OPENAI_API_KEY = ""
             THEN [raised |-> Raise("ValueError", <<"OpenAI API key not configured">>),
                   provider |-> "none"]
             ELSE [raised |-> NoExc, provider |-> "openai"]
        ELSE IF n \in {"ollama", "local"}
        THEN [raised |-> NoExc, provider |-> "ollama"]
        ELSE [raised |-> Raise("ValueError", <<"Invalid provider: ", n>>), provider |-> "none"]

\* What the provider endpoint answers.  kind "raise": the client call raises
\* (connection error, timeout, an error status turned into an exception by
\* the SDK); "message": an SDK message whose content is text; "empty": an SDK
\* message with no content; "http": an HTTP response to the POST to
\* /api/generate with its status, and either the "response" field of its
\* JSON body (has_response) or the body of the error.
Reply(kind, status, has_response, t) ==
    [kind |-> kind, status |-> status, has_response |-> has_response, text |-> t]

NoReply == Reply("none", 0, FALSE, <<>>)

\* [raised, is_none, response_text, used_provider] of provider.anonymize
Returned(t, used) ==
    [raised |-> NoExc, is_none |-> FALSE, response_text |-> t, used_provider |-> used]

ReturnedNone(used) ==
    [raised |-> NoExc, is_none |-> TRUE, response_text |-> <<>>, used_provider |-> used]

Raised(exc) ==
    [raised |-> exc, is_none |-> FALSE, response_text |-> <<>>, used_provider |-> ""]

\* provider.anonymize with OllamaProvider not looking at the status code
provider_anonymize_any_status(p, r) ==
    IF r.kind = "raise" THEN Raised(Raise("Exception", r.text))
    ELSE IF p = "anthropic"
    THEN IF r.kind = "message" THEN Returned(r.text, "anthropic")
         ELSE Raised(Raise("Exception", <<"IndexError">>))
    ELSE IF p = "openai"
    THEN IF r.kind = "message" THEN Returned(r.text, "openai") ELSE ReturnedNone("openai")
    ELSE Returned(IF r.has_response THEN r.text ELSE <<>>, "ollama")

\* AnthropicProvider.anonymize, OpenAIProvider.anonymize, OllamaProvider.anonymize
provider_anonymize(p, r) ==
    IF r.kind = "raise" THEN Raised(Raise("Exception", r.text))
    ELSE IF p = "anthropic"
    THEN IF r.kind = "message" THEN Returned(r.text, "anthropic")
         ELSE Raised(Raise("Exception", <<"IndexError">>))
    ELSE IF p = "openai"
    THEN IF r.kind = "message" THEN Returned(r.text, "openai") ELSE ReturnedNone("openai")
    ELSE IF r.status # 200
    THEN Raised(Raise("ValueError",
                      <<"Ollama API error: ", ToString(r.status), " - ">> \o r.text))
    ELSE Returned(IF r.has_response THEN r.text ELSE <<>>, "ollama")

NoResult ==
    [ok |-> FALSE, replacement_log |-> <<>>, anonymized_text |-> <<>>, provider_used |-> "",
     original_text |-> Txt(0, 0, 0)]

\* AnonymizationResult(...)
AnonymizationResult(log, anon, used, original) ==
    [ok |-> TRUE, replacement_log |-> log, anonymized_text |-> anon, provider_used |-> used,
     original_text |-> original]

\* anonymize_text from the return of provider.anonymize on: the exception of
\* the provider propagates; a response that is None makes
\* parse_llm_response raise at response.replace
anonymize_text_tail(ret, original) ==
    IF ret.raised.type # "none"
    THEN [raised |-> ret.raised, parsed |-> FALSE, result |-> NoResult]
    ELSE IF ret.is_none
    THEN [raised |-> Raise("Exception", <<"AttributeError">>), parsed |-> FALSE,
          result |-> NoResult]
    ELSE LET r == parse_llm_response(ret.response_text)
         IN  [raised |-> NoExc, parsed |-> TRUE,
              result |-> AnonymizationResult(r.replacement_log, r.anonymized_text,
                                             ret.used_provider, original)]

NoError == [status |-> 0, detail |-> <<>>, at |-> ""]

HTTPException(status, detail, at) == [status |-> status, detail |-> detail, at |-> at]

\* the except clauses of the two endpoints
endpoint_error(ep, exc, at) ==
    IF exc.type = "ValueError" THEN HTTPException(400, exc.msg, at)
    ELSE IF ep = "text" THEN HTTPException(500, <<"Anonymization failed: ">> \o exc.msg, at)
    ELSE HTTPException(500, <<"File processing failed: ">> \o exc.msg, at)

\* validate_file_type: Path(filename).suffix.lower() is an allowed type
AllowedFileTypes == {".docx", ".pdf"}

validate_file_type(suffix) ==
    IF lower_ext(suffix) \in AllowedFileTypes
    THEN [raised |-> NoExc, file_extension |-> lower_ext(suffix)]
    ELSE [raised |-> Raise("HTTPException", <<"File type not allowed. Allowed types: ",
                                              ".docx, .pdf">>),
          file_extension |-> ""]

\* the check of the upload endpoint left out
no_text_extracted_unchecked(x) == FALSE

\* not extracted_text.strip()
no_text_extracted(x) == ~HasText(TStrip(TextOf(x)))

\* os.unlink(path) removes the file or raises (the file is held open by
\* another handle, the directory is read-only, ...)
UnlinkOutcomes == {"removed", "raised"}

\* cleanup_file: the registry and the disk after it, and what it returns.
\* The entry is popped first; os.unlink is tried when there was an entry and
\* the file exists, and the exception it may raise is printed and dropped.
cleanup_file(file_id, registry, files, unlink) ==
    LET tried == file_id \in registry /\ file_id \in files
    IN  [temp_files |-> registry \ {file_id},
         disk |-> IF tried /\ unlink = "removed" THEN files \ {file_id} ELSE files,
         returned |-> tried /\ unlink = "removed",
         unlinked |-> tried]

\* the finally clause of anonymize_upload
finally_cleanup(tf, registry, files, unlink) ==
    IF tf # 0 THEN cleanup_file(tf, registry, files, unlink)
    ELSE [temp_files |-> registry, disk |-> files, returned |-> FALSE, unlinked |-> FALSE]

(***************************************************************************)
(* Upload requests served concurrently.  The endpoints are coroutines on   *)
(* one event loop: a coroutine keeps the loop until an await suspends it.  *)
(* aiofiles and UploadFile.read suspend save_temp_file; the coroutines of  *)
(* document_parser and cleanup_file hold no await that suspends; the SDK   *)
(* clients of the hosted providers are synchronous, httpx.AsyncClient of   *)
(* the local one suspends.  cleanup_task sleeps and then runs               *)
(* cleanup_old_files, which does not suspend either.                       *)
(***************************************************************************)
\* the clock is advanced by TEMP_FILE_TTL at most MaxTicks times
MaxTicks == 2

TEMP_FILE_TTL == 3600

\* two requests are in flight; a request draws one file id, so that the ids
\* drawn are among 1, 2 as well
Runs == {1, 2}

\* str(uuid.uuid4()) naming every upload the same
uuid4_repeated(used) == 1

\* str(uuid.uuid4()): an id that was not returned before
uuid4(used) == CHOOSE i \in 1..(Cardinality(used) + 1) : i \notin used

\* every await hands the event loop back
suspends_always(at, p) == TRUE

\* whether the await at a step of anonymize_upload suspends the coroutine
suspends(at, p) ==
    \/ at = "save"
    \/ at = "call" /\ p = "ollama"

\* cleanup_old_files: the entries older than TEMP_FILE_TTL
expired_files(registry, created, current_time) ==
    {file_id \in registry : current_time - created[file_id] > TEMP_FILE_TTL}

ConcIdle ==
    /\ runs = <<>>
    /\ running = 0
    /\ now = 0
    /\ created_at = <<>>
    /\ stored = <<>>
    /\ issued = {}
    /\ unlinks = <<>>
    /\ swept = {}

otherThanParse == <<extractVars, runVars, concVars>>

parseVars == <<response, phase, nchunks, srcItems, srcBody, srcTrailer, markers,
               pstate, replacement_log, anonymized_text>>

RunIdle ==
    /\ endpoint = "none"
    /\ provider_name = ""
    /\ settings = [ANTHROPIC_API_KEY |-> "", OPENAI_API_KEY |-> ""]
    /\ parameters = NoParameters
    /\ params = NoParams
    /\ request = NoRequest
    /\ upload = [suffix |-> "", oversize |-> FALSE, readable |-> FALSE]
    /\ text = Txt(0, 0, 0)
    /\ pc = "idle"
    /\ temp_file = 0
    /\ temp_files = {}
    /\ disk = {}
    /\ provider = "none"
    /\ calls = 0
    /\ reply = NoReply
    /\ result = NoResult
    /\ error = NoError

ParseStart ==
    /\ response = <<>>
    /\ phase = "pre"
    /\ nchunks = 0
    /\ srcItems = <<>>
    /\ srcBody = <<>>
    /\ srcTrailer = <<>>
    /\ markers = [log |-> "none", doc |-> "none"]
    /\ pstate = "building"
    /\ replacement_log = <<>>
    /\ anonymized_text = <<>>

CanAppend == pstate = "building" /\ nchunks < MaxChunks

AppendPre ==
    /\ CanAppend /\ phase = "pre" /\ nchunks = 0
    /\ \E c \in PreChunks : response' = response \o c
    /\ nchunks' = nchunks + 1
    /\ UNCHANGED <<phase, srcItems, srcBody, srcTrailer, markers, pstate,
                   replacement_log, anonymized_text>>
    /\ UNCHANGED otherThanParse

AppendLogMarker ==
    /\ CanAppend /\ phase = "pre"
    /\ \E m \in LogMarkerLines :
          /\ response' = response \o m.text
          /\ markers' = [markers EXCEPT !.log = IF m.ok THEN "ok" ELSE "bad"]
    /\ phase' = "log"
    /\ nchunks' = nchunks + 1
    /\ UNCHANGED <<srcItems, srcBody, srcTrailer, pstate, replacement_log, anonymized_text>>
    /\ UNCHANGED otherThanParse

AppendItem ==
    /\ CanAppend /\ phase = "log"
    /\ \E it \in Items :
          /\ response' = response \o it.text
          /\ srcItems' = Append(srcItems, it)
    /\ nchunks' = nchunks + 1
    /\ UNCHANGED <<phase, srcBody, srcTrailer, markers, pstate, replacement_log, anonymized_text>>
    /\ UNCHANGED otherThanParse

AppendDocMarker ==
    /\ CanAppend /\ phase \in {"pre", "log"}
    /\ \E m \in DocMarkerLines :
          /\ response' = response \o m.text
          /\ markers' = [markers EXCEPT !.doc = IF m.ok THEN "ok" ELSE "bad"]
    /\ phase' = "doc"
    /\ nchunks' = nchunks + 1
    /\ UNCHANGED <<srcItems, srcBody, srcTrailer, pstate, replacement_log, anonymized_text>>
    /\ UNCHANGED otherThanParse

\* a response that has no BLOCK 2 marker line at all
OmitDocMarker ==
    /\ pstate = "building" /\ phase \in {"pre", "log"}
    /\ phase' = "doc"
    /\ UNCHANGED <<response, nchunks, srcItems, srcBody, srcTrailer, markers, pstate,
                   replacement_log, anonymized_text>>
    /\ UNCHANGED otherThanParse

AppendBody ==
    /\ CanAppend /\ phase = "doc"
    /\ \E b \in BodyChunks :
          /\ response' = response \o b
          /\ srcBody' = srcBody \o b
    /\ nchunks' = nchunks + 1
    /\ UNCHANGED <<phase, srcItems, srcTrailer, markers, pstate, replacement_log, anonymized_text>>
    /\ UNCHANGED otherThanParse

AppendTrailer ==
    /\ CanAppend /\ phase = "doc"
    /\ \E t \in Trailers :
          /\ response' = response \o t
          /\ srcTrailer' = t
    /\ phase' = "end"
    /\ nchunks' = nchunks + 1
    /\ UNCHANGED <<srcItems, srcBody, markers, pstate, replacement_log, anonymized_text>>
    /\ UNCHANGED otherThanParse

\* replacement_log, anonymized_text = parse_llm_response(raw_response)
Parse ==
    /\ pstate = "building"
    /\ LET r == parse_llm_response(response)
       IN  /\ replacement_log' = r.replacement_log
           /\ anonymized_text' = r.anonymized_text
    /\ pstate' = "parsed"
    /\ UNCHANGED <<response, phase, nchunks, srcItems, srcBody, srcTrailer, markers>>
    /\ UNCHANGED otherThanParse

ParseNext ==
    \/ AppendPre
    \/ AppendLogMarker
    \/ AppendItem
    \/ AppendDocMarker
    \/ OmitDocMarker
    \/ AppendBody
    \/ AppendTrailer
    \/ Parse

(***************************************************************************)
(* The documents the extractor is run on: a .docx of paragraphs and tables *)
(* or a PDF of pages, each page with the text of its text layer (native)   *)
(* and the text OCR reads off its image (ocr).                             *)
(***************************************************************************)
MaxDocParts == 3
MaxCells == 2
MaxPages == 4

ParaTexts == {Txt(0, 0, 0), Txt(2, 0, 0), Txt(0, 12, 0), Txt(1, 12, 1)}
CellTexts == {Txt(0, 0, 0), Txt(1, 5, 0)}
NativeTexts == {Txt(1, 0, 0), Txt(0, 99, 1), Txt(0, 100, 0), Txt(1, 300, 1)}
OcrTexts == {Txt(1, 0, 0), Txt(0, 250, 1)}

Rows == UNION {[1..n -> CellTexts] : n \in 1..MaxCells}

EmptyFile(k) == [kind |-> k, paragraphs |-> <<>>, tables |-> <<>>, pages |-> <<>>]

RECURSIVE RowCount(_)
RowCount(tables) == IF tables = <<>> THEN 0 ELSE Len(Head(tables)) + RowCount(Tail(tables))

DocParts(f) == Len(f.paragraphs) + Len(f.tables) + RowCount(f.tables)

ExtractStart ==
    /\ xstate = "building"
    /\ file_extension = ""
    /\ force_ocr = FALSE
    /\ extracted_text = NoText
    /\ used_ocr = FALSE

ExtractIdle == file = EmptyFile("none") /\ ExtractStart

ParseIdle == ParseStart

otherThanExtract == <<parseVars, runVars, concVars>>

AddParagraph ==
    /\ xstate = "building" /\ file.kind = "docx" /\ DocParts(file) < MaxDocParts
    /\ \E t \in ParaTexts : file' = [file EXCEPT !.paragraphs = Append(@, t)]
    /\ UNCHANGED <<xstate, file_extension, force_ocr, extracted_text, used_ocr>>
    /\ UNCHANGED otherThanExtract

AddTable ==
    /\ xstate = "building" /\ file.kind = "docx" /\ DocParts(file) < MaxDocParts
    /\ file' = [file EXCEPT !.tables = Append(@, <<>>)]
    /\ UNCHANGED <<xstate, file_extension, force_ocr, extracted_text, used_ocr>>
    /\ UNCHANGED otherThanExtract

AddRow ==
    /\ xstate = "building" /\ file.kind = "docx" /\ DocParts(file) < MaxDocParts
    /\ file.tables # <<>>
    /\ \E r \in Rows :
          file' = [file EXCEPT !.tables[Len(file.tables)] = Append(@, r)]
    /\ UNCHANGED <<xstate, file_extension, force_ocr, extracted_text, used_ocr>>
    /\ UNCHANGED otherThanExtract

AddPage ==
    /\ xstate = "building" /\ file.kind = "pdf" /\ Len(file.pages) < MaxPages
    /\ \E n \in NativeTexts, o \in OcrTexts :
          file' = [file EXCEPT !.pages = Append(@, [native |-> n, ocr |-> o])]
    /\ UNCHANGED <<xstate, file_extension, force_ocr, extracted_text, used_ocr>>
    /\ UNCHANGED otherThanExtract

\* text, used_ocr = await parse_pdf(file_path, force_ocr)
CallParsePdf ==
    /\ xstate = "building" /\ file.kind = "pdf"
    /\ \E f \in BOOLEAN :
          /\ force_ocr' = f
          /\ extracted_text' = parse_pdf(file.pages, f).text
          /\ used_ocr' = parse_pdf(file.pages, f).used_ocr
    /\ xstate' = "pdf_done"
    /\ UNCHANGED <<file, file_extension>>
    /\ UNCHANGED otherThanExtract

ExtensionsOf(k) ==
    (IF k = "docx" THEN {".docx", ".DOCX", ".Docx"} ELSE {".pdf", ".PDF", ".Pdf"})
    \cup {".txt", ".doc", ""}

\* extracted_text, used_ocr = await parse_document(file_path, file_extension)
CallParseDocument ==
    /\ xstate = "building"
    /\ \E e \in ExtensionsOf(file.kind) :
          LET r == parse_document(file, e)
          IN  /\ file_extension' = e
              /\ extracted_text' = r.text
              /\ used_ocr' = r.used_ocr
              /\ xstate' = IF r.ok THEN "done" ELSE "unsupported"
    /\ UNCHANGED <<file, force_ocr>>
    /\ UNCHANGED otherThanExtract

ExtractInit ==
    /\ file \in {EmptyFile("docx"), EmptyFile("pdf")}
    /\ ExtractStart
    /\ ParseIdle
    /\ RunIdle
    /\ ConcIdle

ExtractNext ==
    \/ AddParagraph
    \/ AddTable
    \/ AddRow
    \/ AddPage
    \/ CallParsePdf
    \/ CallParseDocument

(***************************************************************************)
(* One request to POST /anonymize/text or POST /anonymize/upload, in the   *)
(* steps of the handler.  The request names a provider, the settings hold  *)
(* the API keys, an upload carries a document.                             *)
(***************************************************************************)
ProviderNames ==
    {"anthropic", "Anthropic", "openai", "OpenAI", "ollama", "Ollama", "local", "LOCAL",
     "gemini", ""}

Settings ==
    [ANTHROPIC_API_KEY : {"", "sk-ant-test"}, OPENAI_API_KEY : {"", "sk-test"}]

RequestTexts == {Txt(0, 0, 0), Txt(2, 0, 0), Txt(0, 40, 1)}

Page(n, o) == [native |-> n, ocr |-> o]

\* the documents uploaded: a .docx with text, one with a blank paragraph and
\* an empty table row, a PDF with a text layer, a scanned PDF, a PDF whose
\* short text layer sends it to OCR that reads nothing, a PDF of no pages
UploadDocs ==
    { [EmptyFile("docx") EXCEPT !.paragraphs = <<Txt(0, 12, 0), Txt(1, 12, 1)>>],
      [EmptyFile("docx") EXCEPT !.paragraphs = <<Txt(2, 0, 0)>>,
                                !.tables = << <<>> >>],
      [EmptyFile("pdf") EXCEPT !.pages = <<Page(Txt(1, 300, 1), Txt(0, 250, 1))>>],
      [EmptyFile("pdf") EXCEPT !.pages = <<Page(Txt(1, 0, 0), Txt(0, 250, 1)),
                                           Page(Txt(1, 0, 0), Txt(1, 0, 0))>>],
      [EmptyFile("pdf") EXCEPT !.pages = <<Page(Txt(0, 99, 1), Txt(1, 0, 0))>>],
      EmptyFile("pdf") }

Upload(suffix, oversize, readable) ==
    [suffix |-> suffix, oversize |-> oversize, readable |-> readable]

\* the uploads of a document: its own suffix in lower and in upper case, a
\* suffix that is not allowed, too large a file, a file the parser cannot open
UploadsOf(k) ==
    LET s == IF k = "docx" THEN <<".docx", ".DOCX">> ELSE <<".pdf", ".PDF">>
    IN  {Upload(s[1], FALSE, TRUE), Upload(s[2], FALSE, TRUE), Upload(".txt", FALSE, TRUE),
         Upload(s[1], TRUE, TRUE), Upload(s[1], FALSE, FALSE)}

\* raw responses of a model: the layout asked for, prose with no marker, a
\* marker line with nothing after it, nothing at all
RawResponses ==
    { <<"BLOCK 1", " ", "<em-dash>", " ", "PHI REPLACEMENT LOG", "\n", "\n",
        "Category:", " ", "Name", " ", "Original token:", " ", "Patient name",
        " ", "Replacement:", " ", "Jordan Lee", " ", "Consistency key:", " ",
        "[PATIENT_NAME]", "\n",
        "BLOCK 2", " ", "<em-dash>", " ", "DE-IDENTIFIED DOCUMENT", "\n", "\n",
        "Patient [PATIENT_NAME] was seen today.">>,
      <<"I cannot help with that.">>,
      <<"BLOCK 2", "\n">>,
      <<>> }

\* what the endpoint of provider p can answer
Replies(p) ==
    {Reply("raise", 0, FALSE, <<"connection error">>)}
    \cup (IF p \in {"anthropic", "openai"}
          THEN {Reply("message", 200, TRUE, t) : t \in RawResponses}
               \cup {Reply("empty", 200, FALSE, <<>>)}
          ELSE {Reply("http", 200, TRUE, t) : t \in RawResponses}
               \cup {Reply("http", 200, FALSE, <<>>),
                     Reply("http", 404, FALSE, <<"model 'llama2' not found">>),
                     Reply("http", 500, FALSE, <<"internal error">>)})

\* the LLMParameters of requests, within the bounds the model class
\* validates: no field set; temperature and top_p set to 0; every field
\* set; max_tokens and an empty model_name only
ValidParams ==
    { LLMParameters(None, None, None, None, NoName),
      LLMParameters(Some(0), None, Some(0), None, NoName),
      LLMParameters(Some(7), Some(200), Some(9), Some(8192), Some("custom-model")),
      LLMParameters(None, Some(200), None, None, Some("")) }

Parameters ==
    {NoParameters, [kind |-> "invalid", value |-> NoParams]}
    \cup {[kind |-> "valid", value |-> v] : v \in ValidParams}

RunInit ==
    /\ ParseStart
    /\ ExtractStart
    /\ ConcIdle
    /\ provider_name \in ProviderNames
    /\ settings \in Settings
    /\ parameters \in Parameters
    /\ request = NoRequest
    /\ \/ /\ endpoint = "text"
          /\ parameters.kind # "invalid"
          /\ params = parameters.value
          /\ file = EmptyFile("none")
          /\ upload = Upload("", FALSE, FALSE)
          /\ text \in RequestTexts
          /\ pc = "anonymize"
       \/ /\ endpoint = "upload"
          /\ params = NoParams
          /\ file \in UploadDocs
          /\ upload \in UploadsOf(file.kind)
          /\ text = Txt(0, 0, 0)
          /\ pc = "params"
    /\ temp_file = 0
    /\ temp_files = {}
    /\ disk = {}
    /\ provider = "none"
    /\ calls = 0
    /\ reply = NoReply
    /\ result = NoResult
    /\ error = NoError

requestVars == <<endpoint, provider_name, settings, parameters, upload, file>>

\* params and request, left alone by every step but the two that set them
callArgs == <<params, request>>

unusedByRun == <<phase, nchunks, srcItems, srcBody, srcTrailer, markers, force_ocr>>

\* the exception leaves the handler: the except clause makes it the error
\* of the response; the finally clause of anonymize_upload cleans up
Abort(err) ==
    /\ pc' = "failed"
    /\ error' = err
    /\ \E unlink \in UnlinkOutcomes :
          LET c == IF endpoint = "upload"
                   THEN finally_cleanup(temp_file, temp_files, disk, unlink)
                   ELSE [temp_files |-> temp_files, disk |-> disk]
          IN  temp_files' = c.temp_files /\ disk' = c.disk

\* anonymize_upload: the parameters form field, json.loads and LLMParameters
ParseParameters ==
    /\ UNCHANGED concVars
    /\ pc = "params"
    /\ IF parameters.kind = "invalid"
       THEN /\ Abort(HTTPException(400, <<"Invalid parameters: ", "JSONDecodeError">>,
                                   "params"))
            /\ UNCHANGED params
       ELSE /\ params' = parameters.value
            /\ pc' = "save"
            /\ UNCHANGED <<error, temp_files, disk>>
    /\ UNCHANGED <<requestVars, unusedByRun, text, temp_file, provider, calls, reply, result>>
    /\ UNCHANGED request
    /\ UNCHANGED <<xstate, file_extension, extracted_text, used_ocr>>
    /\ UNCHANGED <<response, pstate, replacement_log, anonymized_text>>

\* temp_file = await file_handler.save_temp_file(file)
SaveTempFile ==
    /\ UNCHANGED concVars
    /\ pc = "save"
    /\ LET v == validate_file_type(upload.suffix)
           file_id == uuid4(temp_files)
       IN  IF v.raised.type # "none"
           THEN /\ Abort(HTTPException(400, v.raised.msg, "save"))
                /\ UNCHANGED <<temp_file, file_extension>>
           ELSE IF upload.oversize
           THEN \* the partial file is closed and unlinked, then 413 is raised;
                \* an exception of os.unlink leaves save_temp_file instead
                \E unlink \in UnlinkOutcomes :
                   /\ pc' = "failed"
                   /\ error' = IF unlink = "removed"
                                THEN HTTPException(413, <<"File too large. Maximum size: ",
                                                         "10.0MB">>, "save")
                                ELSE endpoint_error("upload",
                                                    Raise("OSError", <<"unlink">>), "save")
                   /\ disk' = IF unlink = "removed" THEN disk ELSE disk \cup {file_id}
                   /\ UNCHANGED <<temp_files, temp_file, file_extension>>
           ELSE /\ temp_file' = file_id
                /\ temp_files' = temp_files \cup {file_id}
                /\ disk' = disk \cup {file_id}
                /\ file_extension' = v.file_extension
                /\ pc' = "extract"
                /\ UNCHANGED error
    /\ UNCHANGED callArgs
    /\ UNCHANGED <<requestVars, unusedByRun, text, provider, calls, reply, result>>
    /\ UNCHANGED <<xstate, extracted_text, used_ocr>>
    /\ UNCHANGED <<response, pstate, replacement_log, anonymized_text>>

\* extracted_text, used_ocr = await document_parser.parse_document(...) and
\* the check that the text is not blank
ExtractText ==
    /\ UNCHANGED concVars
    /\ pc = "extract"
    /\ IF ~upload.readable
       THEN /\ Abort(endpoint_error("upload", Raise("Exception", <<"cannot open file">>),
                                    "extract"))
            /\ UNCHANGED <<xstate, extracted_text, used_ocr, text>>
       ELSE LET r == parse_document(file, file_extension)
            IN  IF ~r.ok
                THEN /\ Abort(endpoint_error("upload",
                                             Raise("ValueError",
                                                   <<"Unsupported file type: ", file_extension>>),
                                             "extract"))
                     /\ xstate' = "unsupported"
                     /\ UNCHANGED <<extracted_text, used_ocr, text>>
                ELSE /\ xstate' = "done"
                     /\ extracted_text' = r.text
                     /\ used_ocr' = r.used_ocr
                     /\ IF no_text_extracted(r.text)
                        THEN /\ Abort(HTTPException(400,
                                        <<"No text could be extracted from the document">>,
                                        "extract"))
                             /\ UNCHANGED text
                        ELSE /\ text' = TextOf(r.text)
                             /\ pc' = "anonymize"
                             /\ UNCHANGED <<error, temp_files, disk>>
    /\ UNCHANGED callArgs
    /\ UNCHANGED <<requestVars, unusedByRun, temp_file, provider, calls, reply, result>>
    /\ UNCHANGED file_extension
    /\ UNCHANGED <<response, pstate, replacement_log, anonymized_text>>

\* llm_service.anonymize_text: provider = get_provider(provider_name)
SelectProvider ==
    /\ UNCHANGED concVars
    /\ pc = "anonymize"
    /\ LET g == get_provider(provider_name, settings)
       IN  IF g.raised.type # "none"
           THEN Abort(endpoint_error(endpoint, g.raised, "select")) /\ UNCHANGED provider
           ELSE /\ provider' = g.provider
                /\ pc' = "call"
                /\ UNCHANGED <<error, temp_files, disk>>
    /\ UNCHANGED callArgs
    /\ UNCHANGED <<requestVars, unusedByRun, text, temp_file, calls, reply, result>>
    /\ UNCHANGED <<xstate, file_extension, extracted_text, used_ocr>>
    /\ UNCHANGED <<response, pstate, replacement_log, anonymized_text>>

\* provider.anonymize(text, params) sends its request
CallProvider ==
    /\ UNCHANGED concVars
    /\ pc = "call"
    /\ calls' = calls + 1
    /\ request' = provider_request(provider, params)
    /\ pc' = "awaiting"
    /\ UNCHANGED params
    /\ UNCHANGED <<requestVars, unusedByRun, text, temp_file, temp_files, disk, provider,
                   reply, result, error>>
    /\ UNCHANGED <<xstate, file_extension, extracted_text, used_ocr>>
    /\ UNCHANGED <<response, pstate, replacement_log, anonymized_text>>

\* the answer arrives: provider.anonymize returns or raises, then
\* parse_llm_response, the AnonymizationResult and the return of the endpoint
ProviderReplies ==
    /\ UNCHANGED concVars
    /\ pc = "awaiting"
    /\ \E r \in Replies(provider) :
          LET ret == provider_anonymize(provider, r)
              t   == anonymize_text_tail(ret, text)
          IN  /\ reply' = r
              /\ response' = IF ret.raised.type = "none" /\ ~ret.is_none
                             THEN ret.response_text ELSE response
              /\ IF t.raised.type # "none"
                 THEN /\ Abort(endpoint_error(endpoint, t.raised,
                                              IF ret.raised.type # "none" THEN "call"
                                              ELSE "parse"))
                      /\ UNCHANGED <<pstate, replacement_log, anonymized_text, result>>
                 ELSE /\ pstate' = "parsed"
                      /\ replacement_log' = t.result.replacement_log
                      /\ anonymized_text' = t.result.anonymized_text
                      /\ result' = t.result
                      /\ pc' = "done"
                      /\ UNCHANGED error
                      /\ \E unlink \in UnlinkOutcomes :
                            LET c == IF endpoint = "upload"
                                     THEN finally_cleanup(temp_file, temp_files, disk, unlink)
                                     ELSE [temp_files |-> temp_files, disk |-> disk]
                            IN  temp_files' = c.temp_files /\ disk' = c.disk
    /\ UNCHANGED callArgs
    /\ UNCHANGED <<requestVars, unusedByRun, text, temp_file, provider, calls>>
    /\ UNCHANGED <<xstate, file_extension, extracted_text, used_ocr>>

RunNext ==
    \/ ParseParameters
    \/ SaveTempFile
    \/ ExtractText
    \/ SelectProvider
    \/ CallProvider
    \/ ProviderReplies

(***************************************************************************)
(* Upload requests served concurrently, and the sweeper.                   *)
(***************************************************************************)
ConcSettings == [ANTHROPIC_API_KEY |-> "sk-ant-test", OPENAI_API_KEY |-> ""]

\* the answers to concurrent requests: the call raises, or the provider
\* answers in the layout asked for
ConcReplies(p) == {r \in Replies(p) : r.kind = "raise" \/ Len(r.text) > 3}

\* a request as it arrives
NewRun(doc, name) ==
    [doc |-> doc, suffix |-> IF doc.kind = "docx" THEN ".docx" ELSE ".PDF",
     provider_name |-> name, pc |-> "start", file_id |-> 0, temp_file |-> 0,
     file_extension |-> "", text |-> Txt(0, 0, 0), used_ocr |-> FALSE,
     reply |-> NoReply, result |-> NoResult, error |-> NoError,
     found |-> FALSE, cleaned |-> "not called"]

ConcInit ==
    /\ ParseStart
    /\ ExtractIdle
    /\ RunIdle
    \* the uploads: a .docx with text, a PDF with a text layer, a PDF of no pages
    /\ runs \in [Runs -> {NewRun(d, n) :
                             d \in {u \in UploadDocs :
                                       \/ u.paragraphs = <<Txt(0, 12, 0), Txt(1, 12, 1)>>
                                       \/ u.kind = "pdf" /\ Len(u.pages) < 2
                                          /\ \A k \in 1..Len(u.pages) :
                                                 TLen(u.pages[k].native) > 300},
                             n \in {"anthropic", "ollama"}}]
    /\ running = 0
    /\ now = 0
    /\ created_at = [i \in Runs |-> 0]
    /\ stored = [i \in Runs |-> EmptyFile("none")]
    /\ issued = {}
    /\ unlinks = [i \in Runs |-> 0]
    /\ swept = {}

\* the variables of the single request, but for the registry and the disk
singleRun == <<endpoint, provider_name, settings, parameters, params, request, upload, text,
               pc, temp_file, provider, calls, reply, result, error>>

\* The event loop runs a step of request i when i holds the loop or
\* every task is suspended: running \in {0, i}.

\* who holds the loop after request i reached the await at a step
AfterAwait(i, at) == IF suspends(at, runs[i].provider_name) THEN 0 ELSE i

\* save_temp_file up to the first write: the type is validated, the id is
\* drawn and the file is opened and written under it
OpenTempFile(i) ==
    /\ running \in {0, i} /\ runs[i].pc = "start"
    /\ LET v == validate_file_type(runs[i].suffix)
           file_id == uuid4(issued)
       IN  /\ issued' = issued \cup {file_id}
           /\ disk' = disk \cup {file_id}
           /\ stored' = [stored EXCEPT ![file_id] = runs[i].doc]
           /\ runs' = [runs EXCEPT ![i].pc = "saving", ![i].file_id = file_id,
                                   ![i].file_extension = v.file_extension]
    /\ running' = AfterAwait(i, "save")
    /\ UNCHANGED <<now, created_at, temp_files, unlinks, swept>>
    /\ UNCHANGED <<parseVars, extractVars, singleRun>>

\* save_temp_file from the last write on: the TempFile is made, stored in
\* _temp_files and returned; the endpoint awaits parse_document
RegisterTempFile(i) ==
    /\ running \in {0, i} /\ runs[i].pc = "saving"
    /\ created_at' = [created_at EXCEPT ![runs[i].file_id] = now]
    /\ temp_files' = temp_files \cup {runs[i].file_id}
    /\ runs' = [runs EXCEPT ![i].pc = "extract", ![i].temp_file = runs[i].file_id]
    /\ running' = AfterAwait(i, "extract")
    /\ UNCHANGED <<now, disk, stored, issued, unlinks, swept>>
    /\ UNCHANGED <<parseVars, extractVars, singleRun>>

\* the finally clause of request i, which ends it with error err (NoError
\* when it returns its response)
EndRun(i, fields, unlink) ==
    LET tf == runs[i].temp_file
        c  == finally_cleanup(tf, temp_files, disk, unlink)
    IN  /\ temp_files' = c.temp_files
        /\ disk' = c.disk
        /\ unlinks' = IF c.unlinked THEN [unlinks EXCEPT ![tf] = @ + 1] ELSE unlinks
        /\ runs' = [runs EXCEPT ![i] = fields @@
                       [found |-> tf \in temp_files,
                        cleaned |-> IF c.returned THEN "True" ELSE "False"] @@ @]
        /\ running' = 0

\* parse_document on the temp file, the check that the text is not blank,
\* get_provider and the request of provider.anonymize
ExtractAndCall(i) ==
    /\ running \in {0, i} /\ runs[i].pc = "extract"
    /\ LET tf == runs[i].temp_file
           r  == parse_document(stored[tf], runs[i].file_extension)
           g  == get_provider(runs[i].provider_name, ConcSettings)
       IN  IF tf \notin disk \/ ~r.ok \/ no_text_extracted(r.text) \/ g.raised.type # "none"
           THEN \E unlink \in UnlinkOutcomes :
                   EndRun(i, [pc |-> "failed",
                              error |-> IF tf \notin disk
                                        THEN endpoint_error("upload",
                                                 Raise("Exception", <<"cannot open file">>),
                                                 "extract")
                                        ELSE IF ~r.ok
                                        THEN endpoint_error("upload",
                                                 Raise("ValueError", <<"Unsupported file type: ",
                                                       runs[i].file_extension>>), "extract")
                                        ELSE IF no_text_extracted(r.text)
                                        THEN HTTPException(400,
                                                 <<"No text could be extracted from the document">>,
                                                 "extract")
                                        ELSE endpoint_error("upload", g.raised, "select")],
                          unlink)
           ELSE /\ runs' = [runs EXCEPT ![i].pc = "awaiting", ![i].text = TextOf(r.text),
                                        ![i].used_ocr = r.used_ocr]
                /\ running' = AfterAwait(i, "call")
                /\ UNCHANGED <<temp_files, disk, unlinks>>
    /\ UNCHANGED <<now, created_at, stored, issued, swept>>
    /\ UNCHANGED <<parseVars, extractVars, singleRun>>

\* the provider answers request i: parse_llm_response, the response of the
\* endpoint or its error, and the finally clause
RunReplies(i) ==
    /\ running \in {0, i} /\ runs[i].pc = "awaiting"
    /\ LET p == get_provider(runs[i].provider_name, ConcSettings).provider
       IN  \E r \in ConcReplies(p), unlink \in UnlinkOutcomes :
              LET t == anonymize_text_tail(provider_anonymize(p, r), runs[i].text)
              IN  EndRun(i, IF t.raised.type # "none"
                            THEN [pc |-> "failed", reply |-> r,
                                  error |-> endpoint_error("upload", t.raised, "call")]
                            ELSE [pc |-> "done", reply |-> r, result |-> t.result],
                         unlink)
    /\ UNCHANGED <<now, created_at, stored, issued, swept>>
    /\ UNCHANGED <<parseVars, extractVars, singleRun>>

\* time passes
Tick ==
    /\ now < MaxTicks * TEMP_FILE_TTL
    /\ now' = now + TEMP_FILE_TTL
    /\ UNCHANGED <<runs, running, created_at, stored, issued, unlinks, swept>>
    /\ UNCHANGED <<parseVars, extractVars, runVars>>

\* cleanup_task wakes up and runs cleanup_old_files
CleanupOldFiles ==
    /\ running = 0
    /\ LET expired == expired_files(temp_files, created_at, now)
       IN  \E unlink \in [expired -> UnlinkOutcomes] :
              LET c(file_id) == cleanup_file(file_id, temp_files, disk, unlink[file_id])
              IN  /\ temp_files' = temp_files \ expired
                  /\ disk' = {f \in disk : f \in expired => f \in c(f).disk}
                  /\ unlinks' = [f \in Runs |->
                                    IF f \in expired /\ c(f).unlinked THEN unlinks[f] + 1
                                    ELSE unlinks[f]]
                  /\ swept' = swept \cup {[file_id |-> f, age |-> now - created_at[f]] :
                                            f \in expired}
    /\ UNCHANGED <<runs, running, now, created_at, stored, issued>>
    /\ UNCHANGED <<parseVars, extractVars, singleRun>>

ConcNext ==
    \/ \E i \in Runs : OpenTempFile(i)
    \/ \E i \in Runs : RegisterTempFile(i)
    \/ \E i \in Runs : ExtractAndCall(i)
    \/ \E i \in Runs : RunReplies(i)
    \/ Tick
    \/ CleanupOldFiles

ParseInit == ParseStart /\ ExtractIdle /\ RunIdle /\ ConcIdle

vars == <<parseVars, extractVars, runVars, concVars>>

SpecParse == ParseInit /\ [][ParseNext]_vars

SpecExtract == ExtractInit /\ [][ExtractNext]_vars

SpecRun == RunInit /\ [][RunNext]_vars

SpecConc == ConcInit /\ [][ConcNext]_vars

(***************************************************************************)
(* Properties of parse_llm_response, checked under SpecParse.              *)
(***************************************************************************)
Parsed == pstate = "parsed"

NoMarker(s) == \A i \in 1..Len(s) : s[i] \notin (DocMarkers \cup LogMarkers)

\* the text before the first separator ("\n\n---" or "\n\nNote:"), all of it
\* when there is none
UpToSep(s) ==
    LET X == {x \in 1..Len(s) : TermAt(s, x)}
    IN  IF X = {} THEN s ELSE SubSeq(s, 1, SetMin(X) - 1)

\* the first line of the text has a character other than whitespace, ':' and
\* dashes
FirstLineHasText(s) == s # <<>> /\ ClassRun(s, 1) < Len(s) /\ NlEnds(s, 1) = {}

RECURSIVE MapEntries(_, _, _)
MapEntries(items, onlyWf, cleaned) ==
    IF items = <<>> THEN <<>>
    ELSE LET it == Head(items)
             e  == it.entry
             f(v) == IF cleaned THEN strip(clean_response(v)) ELSE v
             rest == MapEntries(Tail(items), onlyWf, cleaned)
         IN  IF onlyWf /\ ~it.wf THEN rest
             ELSE <<Entry(f(e.category), f(e.original_token), f(e.replacement),
                          f(e.consistency_key))>> \o rest

AllWellFormed == \A i \in 1..Len(srcItems) : srcItems[i].wf

\* a response of the round-trip shape: both marker lines, well-formed items
\* only, and a body that starts on the line after the BLOCK 2 marker line
RoundTripShape ==
    /\ markers.log = "ok" /\ markers.doc = "ok"
    /\ AllWellFormed
    /\ FirstLineHasText(clean_response(srcBody))

\* C1 (as claimed): a non-empty raw response never parses to an empty
\* anonymized_text.
C1_NonEmptyText == (Parsed /\ response # <<>>) => anonymized_text # <<>>

\* C2 (as claimed): for a response of the round-trip shape the log holds the
\* source entries in order with their field values exactly as written, and
\* anonymized_text is the text after the BLOCK 2 marker line up to the next
\* separator (surrounding whitespace aside).
C2_RoundTripExact ==
    (Parsed /\ RoundTripShape) =>
        /\ replacement_log = MapEntries(srcItems, FALSE, FALSE)
        /\ anonymized_text = strip(UpToSep(srcBody \o srcTrailer))

\* C2 (amended): for a response of the round-trip shape the log holds the
\* source entries in order, each field being the source value with every '*'
\* removed and surrounding whitespace trimmed, and anonymized_text is the
\* text after the BLOCK 2 marker line up to the next separator with every
\* '*' removed and surrounding whitespace trimmed.
C2_RoundTrip ==
    (Parsed /\ RoundTripShape) =>
        /\ replacement_log = MapEntries(srcItems, FALSE, TRUE)
        /\ anonymized_text = strip(UpToSep(clean_response(srcBody \o srcTrailer)))

C2_Witness ==
    /\ Parsed /\ RoundTripShape
    /\ Len(srcItems) = 2 /\ srcItems[1] # srcItems[2]
    /\ \E i \in 1..2 : \E j \in 1..Len(srcItems[i].entry.replacement) :
          srcItems[i].entry.replacement[j] = "*"
    /\ Len(replacement_log) = 2
    /\ anonymized_text # <<>>

\* C3 (as claimed): with a document marker line present, anonymized_text is
\* the whole body up to the trailing separator or note (or the end): nothing
\* of the body that precedes the trailer is left out.
C3_WholeBody ==
    (Parsed /\ markers.doc = "ok" /\ FirstLineHasText(clean_response(srcBody))) =>
        anonymized_text = strip(clean_response(srcBody))

\* C4 (as claimed): an item that lacks a field yields no entry and leaves the
\* other items alone: the log is exactly the well-formed items, in order,
\* each with its own four field values.
C4_ItemsIndependent ==
    (Parsed /\ markers.log = "ok" /\ markers.doc # "none") =>
        replacement_log = MapEntries(srcItems, TRUE, TRUE)

\* C5: a raw response with no BLOCK 1 / BLOCK 2 / PHI REPLACEMENT LOG /
\* DE-IDENTIFIED DOCUMENT marker parses to an empty log and to the raw
\* response itself, emphasis markup included.
C5_NoMarkerFallback ==
    (Parsed /\ NoMarker(response)) =>
        /\ replacement_log = <<>>
        /\ anonymized_text = response

C5_Witness ==
    /\ Parsed /\ NoMarker(response)
    /\ \E i \in 1..Len(response) : response[i] = "*"
    /\ \E i \in 1..Len(response) : response[i] \in CategoryLabels
    /\ \E i \in 1..Len(response) : TermAt(response, i)
    /\ anonymized_text = response

(***************************************************************************)
(* Properties of the extractor, checked under SpecExtract.                 *)
(***************************************************************************)
\* sum over the first n pages of the length of the native text, whole or
\* with leading and trailing whitespace trimmed
RECURSIVE SumNative(_, _, _)
SumNative(pages, n, trimmed) ==
    IF n = 0 THEN 0
    ELSE SumNative(pages, n - 1, trimmed)
         + (IF trimmed THEN pages[n].native.core ELSE TLen(pages[n].native))

Sampled(pages) == IF Len(pages) < 3 THEN Len(pages) ELSE 3

\* C6 (as claimed): parse_pdf returns used_ocr = TRUE exactly when the flag
\* is set or the average length of the native text of the first
\* min(3, pageCount) pages is below 100.
C6_PathByRawLength ==
    (xstate = "pdf_done" /\ Len(file.pages) > 0) =>
        (used_ocr <=> (force_ocr \/ SumNative(file.pages, Sampled(file.pages), FALSE)
                                      < 100 * Sampled(file.pages)))

\* C6 (amended): parse_pdf returns used_ocr = TRUE exactly when the flag is
\* set or the average length of the native text of the first
\* min(3, pageCount) pages, measured after trimming leading and trailing
\* whitespace of each page's text, is below 100; the text returned is the
\* OCR text in the first case and the native text in the second.
C6_PathSelection ==
    (xstate = "pdf_done" /\ Len(file.pages) > 0) =>
        /\ used_ocr <=> (force_ocr \/ SumNative(file.pages, Sampled(file.pages), TRUE)
                                       < 100 * Sampled(file.pages))
        /\ extracted_text = IF used_ocr THEN parse_pdf_ocr(file.pages)
                            ELSE parse_pdf_text(file.pages)

\* four pages: the first three average exactly 100, the fourth has no native
\* text, so that the average over all pages is below 100
C6_Witness ==
    /\ xstate = "pdf_done" /\ ~force_ocr /\ ~used_ocr
    /\ Len(file.pages) = 4
    /\ SumNative(file.pages, 3, TRUE) = 300
    /\ ~HasText(file.pages[4].native)

SourceHasText(f) ==
    \/ \E i \in 1..Len(f.paragraphs) : HasText(f.paragraphs[i])
    \/ \E i \in 1..Len(f.tables) : \E j \in 1..Len(f.tables[i]) :
          \E k \in 1..Len(f.tables[i][j]) : HasText(f.tables[i][j][k])
    \/ \E i \in 1..Len(f.pages) : HasText(f.pages[i].native) \/ HasText(f.pages[i].ocr)

\* C7 (as claimed): parse_document returns a text of whitespace only (or the
\* empty string) only for a document that has no text content.
C7_BlankOnlyIfSourceBlank ==
    (xstate = "done" /\ ~HasText(TextOf(extracted_text))) => ~SourceHasText(file)

(***************************************************************************)
(* Properties of a request, checked under SpecRun.                         *)
(***************************************************************************)
\* the name is unknown, or it names a hosted provider whose API key is not
\* configured
BadProvider ==
    \/ lower(provider_name) \notin {"anthropic", "openai", "ollama", "local"}
    \/ lower(provider_name) = "anthropic" /\ settings.ANTHROPIC_API_KEY = ""
    \/ lower(provider_name) = "openai" /\ settings.OPENAI_API_KEY = ""

ConfigurationErrors ==
    {<<"Anthropic API key not configured">>, <<"OpenAI API key not configured">>}
    \cup {<<"Invalid provider: ", lower(n)>> : n \in ProviderNames}

\* the steps of a request that come before the selection of the provider
BeforeSelection == {"params", "save", "extract"}

\* C8: a request that names an unknown provider, or a hosted provider whose
\* API key is not configured, never gets a provider and never issues an
\* outbound call; it never gets past the selection, and once it has ended
\* without failing at an earlier step it has failed at the selection with a
\* configuration error.
C8_NoCallWithoutConfiguration ==
    BadProvider =>
        /\ calls = 0 /\ provider = "none" /\ reply = NoReply /\ ~result.ok
        /\ pc \in BeforeSelection \cup {"anonymize", "failed"}
        /\ (pc = "failed" /\ error.at \notin BeforeSelection) =>
              /\ error.at = "select"
              /\ error.status = 400
              /\ error.detail \in ConfigurationErrors

\* an upload whose extraction succeeded and that names OpenAI in mixed case
\* with no key configured has failed at the selection
C8_Witness ==
    /\ BadProvider /\ provider_name = "OpenAI" /\ settings.ANTHROPIC_API_KEY # ""
    /\ endpoint = "upload" /\ xstate = "done" /\ HasText(text)
    /\ pc = "failed" /\ error.at = "select"
    /\ error.detail = <<"OpenAI API key not configured">>
    /\ calls = 0

EmptyExtraction ==
    HTTPException(400, <<"No text could be extracted from the document">>, "extract")

\* C9: for an upload, the provider is selected, called and its response
\* parsed only after parse_document has returned; and when the text it
\* returned is empty or whitespace only the request has failed with the
\* empty-extraction error, with no provider selected, no outbound call and
\* no result.
C9_EmptyExtractionStopsRun ==
    endpoint = "upload" =>
        /\ (provider # "none" \/ calls > 0 \/ result.ok \/ pstate = "parsed"
            \/ pc \in {"anonymize", "call", "awaiting", "done"}
            \/ error.at \in {"select", "call", "parse"}) =>
              (xstate = "done" /\ HasText(TextOf(extracted_text)))
        /\ (xstate = "done" /\ ~HasText(TextOf(extracted_text))) =>
              /\ pc = "failed" /\ error = EmptyExtraction
              /\ provider = "none" /\ calls = 0 /\ reply = NoReply
              /\ ~result.ok /\ pstate = "building"

\* a PDF whose text layer is short and whose OCR reads nothing, uploaded with
\* a provider that is configured
C9_Witness ==
    /\ endpoint = "upload" /\ ~BadProvider
    /\ xstate = "done" /\ used_ocr /\ ~HasText(TextOf(extracted_text))
    /\ Len(file.pages) = 1
    /\ pc = "failed" /\ error = EmptyExtraction
    /\ temp_file # 0 /\ temp_file \notin temp_files

\* the provider call failed: the client raised, or the local inference
\* endpoint answered with a status other than 200
ProviderFailed == reply.kind = "raise" \/ (reply.kind = "http" /\ reply.status # 200)

\* C10: a request issues at most one outbound provider call; when the call
\* fails the request has failed at that call, with no second call, no
\* result and no parsing of a response.
C10_OneCallNoRetry ==
    /\ calls <= 1
    /\ ProviderFailed =>
          /\ pc = "failed" /\ error.at = "call"
          /\ calls = 1
          /\ ~result.ok
          /\ pstate = "building" /\ replacement_log = <<>> /\ anonymized_text = <<>>

\* the local inference endpoint answered 500 to an upload
C10_Witness ==
    /\ ProviderFailed /\ provider = "ollama" /\ reply.status = 500
    /\ endpoint = "upload"
    /\ calls = 1 /\ pc = "failed"
    /\ error.status = 400
    /\ error.detail = <<"Ollama API error: ", "500", " - ", "internal error">>

\* the override of a knob when the request supplies one, else the default
Resolved(o, d) == IF params.given /\ o.some THEN o.v ELSE d

BuiltinModel ==
    IF provider = "anthropic" THEN "claude-3-5-sonnet-20241022"
    ELSE IF provider = "openai" THEN "gpt-4-turbo-preview"
    ELSE "llama2"

CallIssued == calls > 0

\* C11 (as claimed): for every provider, each of temperature, maximum output
\* length, nucleus threshold and context-window size goes into the call
\* with the override when one is supplied and the default otherwise, and the
\* model is the override when one is supplied, else the built-in model.
C11_EveryKnobEveryProvider ==
    CallIssued =>
        /\ request.temperature = Resolved(params.temperature, DEFAULT_TEMPERATURE)
        /\ request.top_p = Resolved(params.top_p, DEFAULT_TOP_P)
        /\ request.max_tokens = Some(Resolved(params.max_tokens, DEFAULT_MAX_TOKENS))
        /\ request.num_ctx = Some(Resolved(params.context_length, DEFAULT_CONTEXT_LENGTH))
        /\ request.model = IF params.given /\ params.model_name.some
                           THEN params.model_name.v ELSE BuiltinModel

\* C11 (amended): the hosted providers send temperature, maximum output
\* length and nucleus threshold and no context-window size, the local
\* provider sends temperature, nucleus threshold and context-window size
\* and no maximum output length; each knob sent is the override when one is
\* supplied (0 included) and the default otherwise; the model is the
\* override when it is a non-empty name, else the built-in model.
C11_KnobsSentResolved ==
    CallIssued =>
        /\ request.temperature = Resolved(params.temperature, DEFAULT_TEMPERATURE)
        /\ request.top_p = Resolved(params.top_p, DEFAULT_TOP_P)
        /\ IF provider = "ollama"
           THEN /\ request.max_tokens = None
                /\ request.num_ctx
                     = Some(Resolved(params.context_length, DEFAULT_CONTEXT_LENGTH))
           ELSE /\ request.max_tokens
                     = Some(Resolved(params.max_tokens, DEFAULT_MAX_TOKENS))
                /\ request.num_ctx = None
        /\ request.model = IF params.given /\ params.model_name.some
                              /\ params.model_name.v # ""
                           THEN params.model_name.v ELSE BuiltinModel

\* an upload to the local provider with temperature and top_p set to 0
C11_Witness ==
    /\ CallIssued /\ provider = "ollama" /\ endpoint = "upload"
    /\ params.given /\ params.temperature = Some(0) /\ params.top_p = Some(0)
    /\ request.temperature = 0 /\ request.top_p = 0
    /\ request.num_ctx = Some(DEFAULT_CONTEXT_LENGTH)

\* the variant a name selects, in any of its casings; "none" for other names
VariantNamed(name) ==
    IF name \in {"anthropic", "Anthropic", "ANTHROPIC"} THEN "anthropic"
    ELSE IF name \in {"openai", "OpenAI", "OPENAI"} THEN "openai"
    ELSE IF name \in {"ollama", "Ollama", "OLLAMA", "local", "Local", "LOCAL"} THEN "ollama"
    ELSE "none"

Configured(v) ==
    /\ v # "none"
    /\ v = "anthropic" => settings.ANTHROPIC_API_KEY # ""
    /\ v = "openai" => settings.OPENAI_API_KEY # ""

SelectionDone == pc \in {"call", "awaiting", "done"} \/ (pc = "failed" /\ error.at \notin BeforeSelection)

\* C12: once the selection is done, a name that is a casing of anthropic,
\* openai, ollama or local (with its key configured) has selected that
\* variant, local and ollama the same one; any other name has failed at the
\* selection with a configuration error; and a result names in provider_used
\* the variant that was selected and called.
C12_SelectionByName ==
    /\ SelectionDone =>
          IF Configured(VariantNamed(provider_name))
          THEN provider = VariantNamed(provider_name)
          ELSE /\ provider = "none" /\ pc = "failed" /\ error.at = "select"
               /\ error.status = 400 /\ error.detail \in ConfigurationErrors
    /\ result.ok => (result.provider_used = provider /\ CallIssued /\ provider # "none")

\* the alias in upper case ends with a result of the local variant
C12_Witness ==
    /\ provider_name = "LOCAL" /\ provider = "ollama"
    /\ pc = "done" /\ result.ok /\ result.provider_used = "ollama"

(***************************************************************************)
(* More properties of the extractor, checked under SpecExtract.            *)
(***************************************************************************)
\* the format an extension names in any letter case, "none" for the others
SupportedAs(e) ==
    IF e \in {".docx", ".DOCX", ".Docx"} THEN "docx"
    ELSE IF e \in {".pdf", ".PDF", ".Pdf"} THEN "pdf"
    ELSE "none"

\* C13: parse_document returns exactly for the extensions .docx and .pdf in
\* any letter case; for every other extension it has raised the
\* unsupported-format error with no text extracted; for .docx it returns
\* the text of parse_word with used_ocr = FALSE, for .pdf what parse_pdf
\* returns.
C13_ExtensionDispatch ==
    xstate \in {"done", "unsupported"} =>
        /\ xstate = "done" <=> SupportedAs(file_extension) # "none"
        /\ xstate = "unsupported" => (extracted_text = NoText /\ ~used_ocr)
        /\ SupportedAs(file_extension) = "docx" =>
              (~used_ocr /\ extracted_text = parse_word(file))
        /\ SupportedAs(file_extension) = "pdf" =>
              extracted_text = IF used_ocr THEN parse_pdf_ocr(file.pages)
                               ELSE parse_pdf_text(file.pages)

\* a .docx named in mixed case has been read
C13_Witness ==
    /\ xstate = "done" /\ file_extension = ".Docx"
    /\ HasText(TextOf(extracted_text)) /\ ~used_ocr

(***************************************************************************)
(* More properties of a request, checked under SpecRun.                    *)
(***************************************************************************)
\* the kind of error a failed request ended with, by the step that raised
\* it and what it raised
ErrorKind ==
    IF error.at = "save" /\ error.status = 400 THEN "unsupported-format"
    ELSE IF error = EmptyExtraction THEN "empty-extraction"
    ELSE IF error.at = "select" THEN "configuration"
    ELSE IF error.at = "call" THEN "provider"
    ELSE "other"

\* C14 (as claimed): the caller can tell a provider error from an
\* unsupported-format, an empty-extraction and a configuration error by its
\* category.  What the caller gets of an error is the status of the response
\* and a message; the three other kinds come with status 400, so a provider
\* error comes with another status.
C14_ProviderErrorOwnCategory ==
    pc = "failed" =>
        /\ ErrorKind \in {"unsupported-format", "empty-extraction", "configuration"} =>
              error.status = 400
        /\ ErrorKind = "provider" => error.status # 400

(***************************************************************************)
(* More properties of parse_llm_response, checked under SpecParse.         *)
(***************************************************************************)
NoStar(s) == \A i \in 1..Len(s) : s[i] # "*"

\* C16: removing the emphasis markup of a response once more changes
\* nothing, what is left holds no asterisk, and a response that holds no
\* asterisk is left as it is.
C16_StripIdempotent ==
    \A c \in {clean_response(response)} :
        /\ clean_response(c) = c
        /\ NoStar(c)
        /\ NoStar(response) => c = response

\* a parsed response with a run of three asterisks and a single one
C16_Witness ==
    /\ Parsed
    /\ \E i \in 1..(Len(response) - 2) :
          response[i] = "*" /\ response[i + 1] = "*" /\ response[i + 2] = "*"
    /\ \E i \in 2..(Len(response) - 1) :
          response[i] = "*" /\ response[i - 1] # "*" /\ response[i + 1] # "*"
    /\ clean_response(response) # response
    /\ anonymized_text # <<>> /\ NoStar(anonymized_text)

(***************************************************************************)
(* The page blocks of a PDF, checked under SpecExtract.                    *)
(***************************************************************************)
\* what the path taken read from page i
PageText(i) == IF used_ocr THEN file.pages[i].ocr ELSE file.pages[i].native

\* the positions of the labels in the parts parse_pdf returned
LabelsAt == {k \in 1..Len(extracted_text.parts) : extracted_text.parts[k].kind = "label"}

\* C17: on the native and on the OCR path, the text parse_pdf returns has
\* exactly one labelled block for every page whose text is not blank and
\* none for a blank page; the label carries the page's position in the PDF,
\* counted from one, the block holds that page's stripped text, and the
\* blocks are in increasing page order.
C17_PageBlocks ==
    xstate = "pdf_done" =>
        LET parts == extracted_text.parts
        IN  /\ \A i \in 1..Len(file.pages) :
                  Cardinality({k \in LabelsAt : parts[k].page = i})
                      = IF HasText(PageText(i)) THEN 1 ELSE 0
            /\ \A k \in LabelsAt : parts[k].page \in 1..Len(file.pages)
            /\ \A k \in LabelsAt :
                  /\ k < Len(parts)
                  /\ parts[k + 1] = Part("text", parts[k].page, TStrip(PageText(parts[k].page)))
            /\ \A k \in 1..Len(parts) : parts[k].kind = "label" <=> k % 2 = 1
            /\ \A k, l \in LabelsAt : k < l => parts[k].page < parts[l].page

\* a blank page between two pages with text, on the OCR path
C17_Witness ==
    /\ xstate = "pdf_done" /\ used_ocr
    /\ Len(file.pages) = 3
    /\ HasText(PageText(1)) /\ ~HasText(PageText(2)) /\ HasText(PageText(3))
    /\ Len(extracted_text.parts) = 4
    /\ extracted_text.parts[3] = Part("label", 3, Txt(0, 14, 0))

\* C18 (as claimed): once an upload request in which save_temp_file returned
\* has ended, with a result or with any error, its entry is out of
\* _temp_files and its file is off the disk; and a request rejected as too
\* large leaves no entry and no partial file.
C18_TempFileRemoved ==
    (endpoint = "upload" /\ pc \in {"done", "failed"}) =>
        /\ temp_file # 0 => temp_file \notin temp_files /\ temp_file \notin disk
        /\ (error.at = "save" /\ error.status = 413) => temp_files = {} /\ disk = {}

(***************************************************************************)
(* Properties of concurrent requests, checked under SpecConc.              *)
(***************************************************************************)
\* what parse_document makes of the document request i uploaded
OwnExtraction(i) == parse_document(runs[i].doc, lower_ext(runs[i].suffix))

\* what the provider's answer to request i makes of its own text
OwnOutcome(i) ==
    anonymize_text_tail(
        provider_anonymize(get_provider(runs[i].provider_name, ConcSettings).provider,
                           runs[i].reply),
        TextOf(OwnExtraction(i).text))

SweptIds == {s.file_id : s \in swept}

\* C15: requests served concurrently do not interfere.  In every
\* interleaving the text a request extracts, its result or error and the
\* removal of its entry are those its own upload and its own provider answer
\* determine; the file it reads holds the document it uploaded; no two
\* requests hold the same file; and the file of a request in flight is
\* removed by no other request.
C15_RunsIndependent ==
    \A i \in Runs :
        LET r == runs[i]
        IN  /\ r.pc \in {"saving", "extract"} =>
                  r.file_id \in disk /\ stored[r.file_id] = r.doc
            /\ r.pc = "extract" => r.temp_file \in temp_files
            /\ r.pc = "awaiting" => r.temp_file \in temp_files \cup SweptIds
            /\ r.pc \in {"awaiting", "done"} =>
                  r.text = TextOf(OwnExtraction(i).text)
                  /\ r.used_ocr = OwnExtraction(i).used_ocr
            /\ r.pc = "done" => r.result = OwnOutcome(i).result
            /\ r.pc = "failed" =>
                  \/ /\ no_text_extracted(OwnExtraction(i).text)
                     /\ r.error = HTTPException(400,
                                     <<"No text could be extracted from the document">>,
                                     "extract")
                  \/ /\ ~no_text_extracted(OwnExtraction(i).text)
                     /\ r.error = endpoint_error("upload", OwnOutcome(i).raised, "call")
            /\ r.pc \in {"done", "failed"} =>
                  /\ r.temp_file \notin temp_files
                  /\ r.found <=> r.temp_file \notin SweptIds
            /\ unlinks[i] > 0 =>
                  \E j \in Runs : runs[j].temp_file = i
                                  /\ (runs[j].pc \in {"done", "failed"} \/ i \in SweptIds)
            /\ \A j \in Runs \ {i} : r.file_id # 0 => r.file_id # runs[j].file_id

\* request 1 has returned its result while request 2, which opened its file
\* first and uploaded another document, still waits for its provider
C15_Witness ==
    /\ runs[1].pc = "done" /\ runs[1].result.ok /\ runs[1].cleaned = "True"
    /\ runs[2].pc = "awaiting" /\ runs[2].file_id = 1
    /\ runs[1].doc # runs[2].doc /\ runs[1].text # runs[2].text
    /\ runs[2].temp_file \in temp_files /\ runs[2].temp_file \in disk

\* C19: in every interleaving of the requests' cleanup and the sweeper,
\* os.unlink is called at most once on a temp file; cleanup_file called for
\* an id whose entry is gone returns False; every entry the sweeper selects
\* is older than TEMP_FILE_TTL; and the file of a request that is extracting
\* from it is registered, on disk and not swept.
C19_SweeperAndCleanup ==
    /\ \A f \in Runs : unlinks[f] <= 1
    /\ \A i \in Runs :
          (runs[i].pc \in {"done", "failed"} /\ ~runs[i].found) => runs[i].cleaned = "False"
    /\ \A s \in swept : s.age > TEMP_FILE_TTL
    /\ \A i \in Runs :
          runs[i].pc = "extract" =>
              /\ runs[i].temp_file \in temp_files
              /\ runs[i].temp_file \in disk
              /\ runs[i].temp_file \notin SweptIds

\* the sweeper took the file of request 1 while it waited for its provider,
\* the request then ended and its cleanup found nothing; request 2 is
\* extracting from its file
C19_Witness ==
    /\ runs[1].pc = "done" /\ ~runs[1].found /\ runs[1].cleaned = "False"
    /\ runs[1].temp_file \in SweptIds /\ unlinks[runs[1].temp_file] = 1
    /\ runs[1].temp_file \notin disk
    /\ runs[2].pc = "extract" /\ runs[2].temp_file \in disk

=============================================================================
